---- MODULE Spec2Model ----
(***************************************************************************)
(* KnowledgeBase (src/knowledge_base.py): a list of fact dictionaries, a   *)
(* parallel matrix of sentence embeddings, and a JSON backing file.        *)
(*                                                                         *)
(* Similarity scores are carried in hundredths (0.3 is 30), vectors are    *)
(* integer pairs whose norms are whole numbers, so cosine similarity is    *)
(* exact integer arithmetic.                                               *)
(***************************************************************************)
EXTENDS Integers, Sequences, FiniteSets, TLC

VARIABLES
    facts,        \* self.facts: sequence of fact dictionaries
    factsKind,    \* "list", or "dict" when load put an empty JSON object there
    embeddings,   \* self.embeddings: None or one row per embedded text
    file,         \* the file at self.kb_path
    pc,           \* "none": no instance; "idle": instance, no call running;
                  \* "returned": a call has just returned or raised; otherwise
                  \* the position inside add_fact / save_knowledge_base
    call,         \* the public operation last started: name, arguments, state at entry
    ret,          \* what that operation returned or raised
    synced        \* the file was last written by a completed save of the current facts

vars == <<facts, factsKind, embeddings, file, pc, call, ret, synced>>

\* ---------------------------------------------------------------- bounds
MaxFacts == 2
MaxTopK == 2

\* ------------------------------------------------------- Python values
None == <<"None">>
Str(s) == <<"str", s>>
Float(x) == <<"float", x>>

\* dict.get(key, default)
Get(d, key, default) == IF key \in DOMAIN d THEN d[key] ELSE default

\* d[key] = value
SetItem(d, key, value) ==
    [k \in (DOMAIN d) \cup {key} |-> IF k = key THEN value ELSE d[k]]

Min(a, b) == IF a <= b THEN a ELSE b

\* ------------------------------------------------ embedding collaborator
\* self.embeddings is None
NoEmbeddings == [isNone |-> TRUE, rows |-> <<>>]

\* SentenceTransformer.encode of one text: deterministic, fixed width
EmbedTable(text) ==
    CASE text = "a" -> <<5, 0>>
      [] text = "b" -> <<3, 4>>
      [] text = ""  -> <<3, -4>>
      [] text = "q" -> <<4, 3>>
      [] OTHER      -> <<-3, 4>>

\* encode(fact_texts): one row per text, in order
EncodeMany(texts) ==
    [isNone |-> FALSE, rows |-> [i \in 1..Len(texts) |-> EmbedTable(texts[i][2])]]

Dot(u, v) == u[1] * v[1] + u[2] * v[2]

ISqrt(n) == CHOOSE r \in 0..n : r * r <= n /\ (r + 1) * (r + 1) > n

Norm(v) == ISqrt(Dot(v, v))

\* torch.nn.functional.cosine_similarity of two vectors, in hundredths
CosineSimilarity(q, v) ==
    LET d == Norm(q) * Norm(v)
    IN  IF d = 0 THEN 0 ELSE (Dot(q, v) * 100) \div d

\* cosine_similarity(query_embedding.unsqueeze(0), self.embeddings)
Similarities(q, rows) == [i \in 1..Len(rows) |-> CosineSimilarity(q, rows[i])]

\* --------------------------------------------------------- JSON documents
\* The file is a sequence of tokens; an object of a fact is one token
\* <<"obj", pairs>> with pairs a sequence of <<key, JSON value>>.
KeyOrder == <<"text", "source", "url", "stance", "category", "similarity_score">>

\* json encoder for a value: None -> null, str -> string, float -> number
DumpValueNoneAsText(v) ==
    CASE v[1] = "None"  -> <<"string", "None">>
      [] v[1] = "str"   -> <<"string", v[2]>>
      [] OTHER          -> <<"number", v[2]>>

DumpValue(v) ==
    CASE v[1] = "None"  -> <<"null">>
      [] v[1] = "str"   -> <<"string", v[2]>>
      [] OTHER          -> <<"number", v[2]>>

\* json decoder for a value
LoadValue(j) ==
    CASE j[1] = "null"   -> None
      [] j[1] = "string" -> Str(j[2])
      [] OTHER           -> Float(j[2])

RECURSIVE DumpPairs(_, _)
DumpPairs(d, i) ==
    IF i > Len(KeyOrder) THEN <<>>
    ELSE IF KeyOrder[i] \in DOMAIN d
         THEN <<<<KeyOrder[i], DumpValue(d[KeyOrder[i]])>>>> \o DumpPairs(d, i + 1)
         ELSE DumpPairs(d, i + 1)

DumpDict(d) == <<"obj", DumpPairs(d, 1)>>

LoadDict(tok) ==
    LET pairs == tok[2]
        keys == {pairs[i][1] : i \in 1..Len(pairs)}
        at(k) == CHOOSE i \in 1..Len(pairs) : pairs[i][1] = k
    IN  [k \in keys |-> LoadValue(pairs[at(k)][2])]

ObjOpen == <<"{">>
FactsKey == <<"\"facts\": [">>
ListClose == <<"]">>
ObjClose == <<"}">>
\* "facts": {} -- the key is there, its value is an empty object, not a list
FactsEmptyObject == <<"\"facts\": {}">>

\* json.dump({'facts': self.facts}, f, indent=2): the tokens written, in order
Dump(fs) ==
    <<ObjOpen, FactsKey>> \o [i \in 1..Len(fs) |-> DumpDict(fs[i])]
        \o <<ListClose, ObjClose>>

\* the same when self.facts may be the empty dictionary
Document(fs, kind) ==
    IF kind = "dict" THEN <<ObjOpen, FactsEmptyObject, ObjClose>> ELSE Dump(fs)

\* json.load(f): the parsed document, or a JSONDecodeError
Parse(text) ==
    LET n == Len(text)
    IN  IF text = <<ObjOpen, ObjClose>>
        THEN [ok |-> TRUE, hasFacts |-> FALSE, facts |-> <<>>, kind |-> "list"]
        ELSE IF text = <<ObjOpen, FactsEmptyObject, ObjClose>>
        THEN [ok |-> TRUE, hasFacts |-> TRUE, facts |-> <<>>, kind |-> "dict"]
        ELSE IF /\ n >= 4
                /\ text[1] = ObjOpen /\ text[2] = FactsKey
                /\ text[n - 1] = ListClose /\ text[n] = ObjClose
                /\ \A i \in 3..(n - 2) : text[i][1] = "obj"
        THEN [ok |-> TRUE, hasFacts |-> TRUE,
              facts |-> [i \in 1..(n - 4) |-> LoadDict(text[i + 2])], kind |-> "list"]
        ELSE [ok |-> FALSE, hasFacts |-> FALSE, facts |-> <<>>, kind |-> "list"]

Missing == [exists |-> FALSE, text |-> <<>>]
FileOf(text) == [exists |-> TRUE, text |-> text]

\* ------------------------------------------------------------------ load
\* load_knowledge_base: the store and the outcome, given the file and whether
\* the embedding collaborator answers
load_knowledge_base(fs, kind, emb, f, embedOk) ==
    IF ~f.exists
    THEN [facts |-> <<>>, kind |-> "list", embeddings |-> NoEmbeddings,
          outcome |-> "ok", embedCalls |-> 0]
    ELSE LET data == Parse(f.text)
             loaded == IF data.hasFacts THEN data.facts ELSE <<>>
             got == [facts |-> loaded, kind |-> data.kind, embeddings |-> emb]
         IN  IF ~data.ok
             THEN [facts |-> fs, kind |-> kind, embeddings |-> emb,
                   outcome |-> "JSONDecodeError", embedCalls |-> 0]
             ELSE IF loaded = <<>>
             THEN got @@ [outcome |-> "ok", embedCalls |-> 0]
             ELSE IF \E i \in 1..Len(loaded) : "text" \notin DOMAIN loaded[i]
             THEN got @@ [outcome |-> "KeyError", embedCalls |-> 0]
             ELSE IF ~embedOk
             THEN got @@ [outcome |-> "EmbeddingUnavailable", embedCalls |-> 1]
             ELSE [facts |-> loaded, kind |-> "list",
                   embeddings |-> EncodeMany([i \in 1..Len(loaded) |-> loaded[i]["text"]]),
                   outcome |-> "ok", embedCalls |-> 1]

\* ---------------------------------------------------------------- search
\* if not self.facts or self.embeddings is None
ShortCircuit(fs, emb) == fs = <<>> \/ emb.isNone

\* torch.topk(similarities, k): k distinct indices holding the k largest
\* values, largest first; which of several equal values comes first, or is
\* kept at the cut, is not specified by torch, so every such choice is a value
TopK(sims, k) ==
    {s \in [1..k -> 1..Len(sims)] :
        /\ \A i, j \in 1..k : i # j => s[i] # s[j]
        /\ \A i \in 1..(k - 1) : sims[s[i]] >= sims[s[i + 1]]
        /\ \A j \in 1..Len(sims) :
              (\A i \in 1..k : s[i] # j) => \A i \in 1..k : sims[s[i]] >= sims[j]}

\* fact = self.facts[idx] (no copy); fact['similarity_score'] = score
AnnotatedAlias(fs, idx, score) ==
    LET fact == SetItem(fs[idx], "similarity_score", Float(score))
    IN  [facts |-> [fs EXCEPT ![idx] = fact], entry |-> [idx |-> idx, fact |-> fact]]

\* fact = self.facts[idx].copy(); fact['similarity_score'] = score
\* (idx is kept beside the returned dictionary to tell equal facts apart)
AnnotatedCopy(fs, idx, score) ==
    LET fact == SetItem(fs[idx], "similarity_score", Float(score))
    IN  [facts |-> fs, entry |-> [idx |-> idx, fact |-> fact]]

\* for score, idx in zip(scores, indices): keep those with score >= threshold
RECURSIVE Collect(_, _, _, _, _, _)
Collect(fs, ranked, sims, threshold, i, acc) ==
    IF i > Len(ranked)
    THEN [outcome |-> "ok", results |-> acc, embedCalls |-> 1, facts |-> fs]
    ELSE LET idx == ranked[i]
             score == sims[idx]
         IN  IF score < threshold
             THEN Collect(fs, ranked, sims, threshold, i + 1, acc)
             ELSE IF idx > Len(fs)
             THEN [outcome |-> "IndexError", results |-> <<>>, embedCalls |-> 1,
                   facts |-> fs]
             ELSE LET a == AnnotatedCopy(fs, idx, score)
                  IN  Collect(a.facts, ranked, sims, threshold, i + 1,
                              Append(acc, a.entry))

\* the part of search after the query is encoded
Rank(fs, emb, query, top_k, threshold) ==
    IF emb.isNone
    THEN {[outcome |-> "TypeError", results |-> <<>>, embedCalls |-> 1, facts |-> fs]}
    ELSE LET sims == Similarities(EmbedTable(query), emb.rows)
             k == Min(top_k, Len(fs))
         IN  IF k < 0 \/ k > Len(sims)
             THEN {[outcome |-> "RuntimeError", results |-> <<>>, embedCalls |-> 1,
                    facts |-> fs]}
             ELSE {Collect(fs, ranked, sims, threshold, 1, <<>>) :
                      ranked \in TopK(sims, k)}

\* search with the query encoded before the empty-store test
searchEncodeFirst(fs, emb, query, top_k, threshold, embedOk) ==
    IF ~embedOk
    THEN {[outcome |-> "EmbeddingUnavailable", results |-> <<>>, embedCalls |-> 1,
           facts |-> fs]}
    ELSE IF ShortCircuit(fs, emb)
    THEN {[outcome |-> "ok", results |-> <<>>, embedCalls |-> 1, facts |-> fs]}
    ELSE Rank(fs, emb, query, top_k, threshold)

\* search(query, top_k, threshold): every outcome it can have
search(fs, emb, query, top_k, threshold, embedOk) ==
    IF ShortCircuit(fs, emb)
    THEN {[outcome |-> "ok", results |-> <<>>, embedCalls |-> 0, facts |-> fs]}
    ELSE IF ~embedOk
    THEN {[outcome |-> "EmbeddingUnavailable", results |-> <<>>, embedCalls |-> 1,
           facts |-> fs]}
    ELSE Rank(fs, emb, query, top_k, threshold)

\* ------------------------------------------------------------ categorize
DefaultThreshold == 30

\* the dictionary categorize_facts builds for one search result
FactData(e) ==
    [idx |-> e.idx,
     fact_data |->
        [text        |-> e.fact["text"],
         source_type |-> Str("database"),
         source_name |-> Get(e.fact, "source", Str("Knowledge Base")),
         url         |-> Get(e.fact, "url", None),
         similarity  |-> e.fact["similarity_score"],
         icon        |-> Str("chart")]]

\* the stance test of categorize_facts: TRUE for the contradicting list
IsContradicting(e) ==
    LET stance == Get(e.fact, "stance", Str("neutral"))
    IN  stance # Str("supporting") /\ stance = Str("contradicting")

RECURSIVE Partition(_, _, _, _)
Partition(relevant, i, supporting, contradicting) ==
    IF i > Len(relevant)
    THEN [supporting |-> supporting, contradicting |-> contradicting]
    ELSE IF IsContradicting(relevant[i])
         THEN Partition(relevant, i + 1, supporting,
                        Append(contradicting, FactData(relevant[i])))
         ELSE Partition(relevant, i + 1,
                        Append(supporting, FactData(relevant[i])), contradicting)

NoBuckets == [supporting |-> <<>>, contradicting |-> <<>>]

\* categorize_facts(query, top_k): the signature has no threshold, so a call
\* that passes one raises TypeError before the body runs
categorize_facts(fs, emb, query, top_k, thresholdGiven, embedOk) ==
    IF thresholdGiven
    THEN {[outcome |-> "TypeError", results |-> <<>>, embedCalls |-> 0, facts |-> fs,
           buckets |-> NoBuckets]}
    ELSE {[outcome |-> o.outcome, results |-> o.results, embedCalls |-> o.embedCalls,
           facts |-> o.facts,
           buckets |-> IF o.outcome = "ok"
                       THEN Partition(o.results, 1, <<>>, <<>>) ELSE NoBuckets] :
             o \in search(fs, emb, query, top_k, DefaultThreshold, embedOk)}

\* ------------------------------------------------------------- add, save
\* the dictionary add_fact builds from its arguments
NewFact(text, source, url, stance, category) ==
    [text |-> Str(text), source |-> source, url |-> url,
     stance |-> Str(stance), category |-> category]

\* self.facts.append(fact)
AppendFact(fs, fact) == Append(fs, fact)

\* only the new text is encoded, and the matrix replaced by that one row
ReembedNewOnly(fs) ==
    IF \E i \in 1..Len(fs) : "text" \notin DOMAIN fs[i]
    THEN [outcome |-> "KeyError", embeddings |-> NoEmbeddings]
    ELSE [outcome |-> "ok", embeddings |-> EncodeMany(<<fs[Len(fs)]["text"]>>)]

\* fact_texts = [f['text'] for f in self.facts]; self.embeddings = encode(fact_texts)
Reembed(fs) ==
    IF \E i \in 1..Len(fs) : "text" \notin DOMAIN fs[i]
    THEN [outcome |-> "KeyError", embeddings |-> NoEmbeddings]
    ELSE [outcome |-> "ok",
          embeddings |-> EncodeMany([i \in 1..Len(fs) |-> fs[i]["text"]])]

\* ------------------------------------------------------------ the inputs
Queries == {"a", "q"}
TopKs == (-1)..MaxTopK
Thresholds == {0, DefaultThreshold}

\* add_fact calls: text, source and stance; url and category keep their defaults
AddCalls ==
    {[text |-> "a", source |-> None, stance |-> "neutral"],
     [text |-> "b", source |-> Str("s"), stance |-> "contradicting"],
     [text |-> "", source |-> Str("s"), stance |-> "supporting"]}

\* the files a process can find at kb_path when it starts: none, a cut-off
\* document, an object without facts, an empty list, an empty object where the list
\* should be, facts written by hand (keys left out, a stance outside the
\* three), a fact without its text
InitFiles ==
    {Missing,
     FileOf(<<ObjOpen>>),
     FileOf(<<ObjOpen, ObjClose>>),
     FileOf(Dump(<<>>)),
     FileOf(<<ObjOpen, FactsEmptyObject, ObjClose>>),
     FileOf(Dump(<<[text |-> Str("b"), stance |-> Str("mixed")],
                   [text |-> Str("")]>>)),
     FileOf(Dump(<<[source |-> Str("s")]>>))}

\* ------------------------------------------------------------ bookkeeping
Entry ==
    [facts |-> facts, kind |-> factsKind, embeddings |-> embeddings, file |-> file]

Called(op, args) == [op |-> op, args |-> args, pre |-> Entry]

Returned(outcome, results, buckets, embedCalls) ==
    [outcome |-> outcome, results |-> results, buckets |-> buckets,
     embedCalls |-> embedCalls]

NoCall == [op |-> "none", args |-> <<>>, pre |-> <<>>]

Running == Returned("running", <<>>, NoBuckets, 0)

Raise(error) == [ret EXCEPT !.outcome = error]

\* ---------------------------------------------------------------- actions
Init ==
    /\ facts = <<>>
    /\ factsKind = "list"
    /\ embeddings = NoEmbeddings
    /\ file \in InitFiles
    /\ pc = "none"
    /\ call = NoCall
    /\ ret = Running
    /\ synced = FALSE

\* KnowledgeBase(kb_path): a fresh store, loaded from the file
Construct ==
    /\ pc \in {"none", "idle"}
    /\ \E embedOk \in BOOLEAN :
          LET o == load_knowledge_base(<<>>, "list", NoEmbeddings, file, embedOk)
          IN  /\ ret' = Returned(o.outcome, <<>>, NoBuckets, o.embedCalls)
              /\ IF o.outcome = "ok"
                 THEN /\ facts' = o.facts
                      /\ factsKind' = o.kind
                      /\ embeddings' = o.embeddings
                      /\ pc' = "returned"
                      /\ synced' = synced
                 ELSE /\ facts' = <<>>
                      /\ factsKind' = "list"
                      /\ embeddings' = NoEmbeddings
                      /\ pc' = "none"
                      /\ synced' = FALSE
    /\ call' = Called("construct", <<>>)
    /\ UNCHANGED file

\* load_knowledge_base() called again on the store
Load ==
    /\ pc = "idle"
    /\ \E embedOk \in BOOLEAN :
          LET o == load_knowledge_base(facts, factsKind, embeddings, file, embedOk)
          IN  /\ ret' = Returned(o.outcome, <<>>, NoBuckets, o.embedCalls)
              /\ facts' = o.facts
              /\ factsKind' = o.kind
              /\ embeddings' = o.embeddings
              /\ synced' = (synced /\ o.facts = facts /\ o.kind = factsKind)
    /\ call' = Called("load", <<>>)
    /\ pc' = "returned"
    /\ UNCHANGED file

Search(query, top_k, threshold) ==
    /\ pc = "idle"
    /\ \E embedOk \in BOOLEAN :
          \E o \in search(facts, embeddings, query, top_k, threshold, embedOk) :
              /\ ret' = Returned(o.outcome, o.results, NoBuckets, o.embedCalls)
              /\ facts' = o.facts
    /\ call' = Called("search",
                      [query |-> query, top_k |-> top_k, threshold |-> threshold])
    /\ pc' = "returned"
    /\ UNCHANGED <<factsKind, embeddings, file, synced>>

\* thresholdGiven: the caller passes threshold as a third argument
Categorize(query, top_k, thresholdGiven, threshold) ==
    /\ pc = "idle"
    /\ \E embedOk \in BOOLEAN :
          \E o \in categorize_facts(facts, embeddings, query, top_k,
                                    thresholdGiven, embedOk) :
              /\ ret' = Returned(o.outcome, o.results, o.buckets, o.embedCalls)
              /\ facts' = o.facts
    /\ call' = Called("categorize",
                      [query |-> query, top_k |-> top_k, threshold |-> threshold,
                       thresholdGiven |-> thresholdGiven])
    /\ pc' = "returned"
    /\ UNCHANGED <<factsKind, embeddings, file, synced>>

\* add_fact, up to the append
AddAppend(a) ==
    /\ pc = "idle"
    /\ factsKind = "list"
    /\ Len(facts) < MaxFacts
    /\ facts' = AppendFact(facts, NewFact(a.text, a.source, None, a.stance, None))
    /\ pc' = "add_embed"
    /\ call' = Called("add", a)
    /\ ret' = Running
    /\ synced' = FALSE
    /\ UNCHANGED <<factsKind, embeddings, file>>

\* add_fact on a store whose facts are a dictionary: append raises AttributeError
AddAppendFails(a) ==
    /\ pc = "idle"
    /\ factsKind = "dict"
    /\ pc' = "returned"
    /\ call' = Called("add", a)
    /\ ret' = Returned("AttributeError", <<>>, NoBuckets, 0)
    /\ UNCHANGED <<facts, factsKind, embeddings, file, synced>>

\* add_fact: the embeddings are recomputed over all texts
AddEmbed ==
    /\ pc = "add_embed"
    /\ LET o == Reembed(facts)
       IN  IF o.outcome = "ok"
           THEN /\ embeddings' = o.embeddings
                /\ pc' = "save_open"
                /\ ret' = [ret EXCEPT !.embedCalls = 1]
           ELSE /\ embeddings' = embeddings
                /\ pc' = "returned"
                /\ ret' = Raise(o.outcome)
    /\ UNCHANGED <<facts, factsKind, file, call, synced>>

\* add_fact: the embedding collaborator raises
AddEmbedFails ==
    /\ pc = "add_embed"
    /\ \A i \in 1..Len(facts) : "text" \in DOMAIN facts[i]
    /\ pc' = "returned"
    /\ ret' = [ret EXCEPT !.outcome = "EmbeddingUnavailable", !.embedCalls = 1]
    /\ UNCHANGED <<facts, factsKind, embeddings, file, call, synced>>

\* save_knowledge_base() called by itself
Save ==
    /\ pc = "idle"
    /\ pc' = "save_open"
    /\ call' = Called("save", <<>>)
    /\ ret' = Running
    /\ UNCHANGED <<facts, factsKind, embeddings, file, synced>>

\* open(self.kb_path, 'w'): the file is created or cut to nothing
SaveOpen ==
    /\ pc = "save_open"
    /\ file' = FileOf(<<>>)
    /\ pc' = "save_write"
    /\ synced' = FALSE
    /\ UNCHANGED <<facts, factsKind, embeddings, call, ret>>

\* open(self.kb_path, 'w') raises OSError
SaveOpenFails ==
    /\ pc = "save_open"
    /\ pc' = "returned"
    /\ ret' = Raise("OSError")
    /\ UNCHANGED <<facts, factsKind, embeddings, file, call, synced>>

\* json.dump: the next piece of the document reaches the file
SaveWrite ==
    /\ pc = "save_write"
    /\ Len(file.text) < Len(Document(facts, factsKind))
    /\ file' = FileOf(Append(file.text, Document(facts, factsKind)[Len(file.text) + 1]))
    /\ UNCHANGED <<facts, factsKind, embeddings, pc, call, ret, synced>>

\* json.dump: the first write raises OSError (the disk is full), the file
\* stays empty; later writes are cut short by Interrupt only
SaveWriteFails ==
    /\ pc = "save_write"
    /\ file.text = <<>>
    /\ pc' = "returned"
    /\ ret' = Raise("OSError")
    /\ UNCHANGED <<facts, factsKind, embeddings, file, call, synced>>

\* the with block ends: the file is closed, the call returns
SaveClose ==
    /\ pc = "save_write"
    /\ Len(file.text) = Len(Document(facts, factsKind))
    /\ pc' = "returned"
    /\ ret' = Raise("ok")
    /\ synced' = TRUE
    /\ UNCHANGED <<facts, factsKind, embeddings, file, call>>

\* the process is interrupted inside add_fact or save_knowledge_base
Interrupt ==
    /\ pc \in {"add_embed", "save_open", "save_write"}
    /\ pc' = "none"
    /\ facts' = <<>>
    /\ factsKind' = "list"
    /\ embeddings' = NoEmbeddings
    /\ call' = NoCall
    /\ ret' = Running
    /\ synced' = FALSE
    /\ UNCHANGED file

\* the caller has its answer; the store waits for the next call
Return ==
    /\ pc = "returned"
    /\ pc' = "idle"
    /\ call' = NoCall
    /\ ret' = Running
    /\ UNCHANGED <<facts, factsKind, embeddings, file, synced>>

Next ==
    \/ Construct
    \/ Return
    \/ Load
    \/ \E q \in Queries, k \in TopKs, t \in Thresholds : Search(q, k, t)
    \/ \E q \in Queries, k \in TopKs : Categorize(q, k, FALSE, DefaultThreshold)
    \/ \E q \in Queries, k \in TopKs : Categorize(q, k, TRUE, 0)
    \/ \E a \in AddCalls : AddAppend(a)
    \/ \E a \in AddCalls : AddAppendFails(a)
    \/ AddEmbed
    \/ AddEmbedFails
    \/ Save
    \/ SaveOpen
    \/ SaveOpenFails
    \/ SaveWrite
    \/ SaveWriteFails
    \/ SaveClose
    \/ Interrupt

Spec == Init /\ [][Next]_vars

\* ------------------------------------------------------------ properties
\* an instance exists and no public operation is running on it
Quiescent == pc \in {"idle", "returned"}

Rows(emb) == IF emb.isNone THEN 0 ELSE Len(emb.rows)

TextOf(fact) == fact["text"][2]

\* row i of the matrix is the embedding of the text of fact i
RowsMatchTexts(fs, emb) ==
    /\ Rows(emb) = Len(fs)
    /\ \A i \in 1..Len(fs) : emb.rows[i] = EmbedTable(TextOf(fs[i]))

\* the similarity of every stored fact to a query, from the texts alone
TrueSims(fs, query) ==
    [i \in 1..Len(fs) |-> CosineSimilarity(EmbedTable(query), EmbedTable(TextOf(fs[i])))]

IdxOf(entries) == [i \in 1..Len(entries) |-> entries[i].idx]

Returns(op) == pc = "returned" /\ call.op = op

\* C1: whenever no public operation is in progress, the number of facts
\* equals the number of rows of the embedding matrix (None counts as zero).
C1_FactsMatchRows == Quiescent => Len(facts) = Rows(embeddings)

\* C2: after a successful add the store is one fact larger, the new fact is
\* last, the earlier facts are unchanged and in order, and row i of the
\* matrix is the embedding of the text of fact i, for every i.
C2_AddAppendsAndReembeds ==
    (Returns("add") /\ ret.outcome = "ok") =>
        LET before == call.pre.facts
            n == Len(before)
        IN  /\ Len(facts) = n + 1
            /\ SubSeq(facts, 1, n) = before
            /\ facts[n + 1] = [text |-> Str(call.args.text),
                               source |-> call.args.source, url |-> None,
                               stance |-> Str(call.args.stance), category |-> None]
            /\ RowsMatchTexts(facts, embeddings)

C2_Witness ==
    /\ Returns("add") /\ ret.outcome = "ok"
    /\ Len(facts) = 2
    /\ TextOf(facts[1]) # TextOf(facts[2])

BlankTexts == {"", " "}

\* C3: an add whose text is empty or whitespace-only changes nothing at any
\* point (facts, matrix and file stay as they were at the call) and ends in
\* ValidationError.
C3_BlankTextRejected ==
    (call.op = "add" /\ call.args.text \in BlankTexts) =>
        /\ facts = call.pre.facts
        /\ embeddings = call.pre.embeddings
        /\ file = call.pre.file
        /\ pc = "returned" => ret.outcome = "ValidationError"

\* S holds k facts none of which is less similar than a fact outside S
IsTopSet(S, sims, k) ==
    /\ Cardinality(S) = k
    /\ \A i \in S : \A j \in (1..Len(sims)) \ S : sims[i] >= sims[j]

\* what C4 asks of a search that returned entries for (query, top_k, threshold)
TopKThenThreshold(fs, entries, query, top_k, threshold) ==
    LET sims == TrueSims(fs, query)
        idx == IdxOf(entries)
        n == Len(fs)
    IN  /\ \A p \in 1..Len(idx) : idx[p] \in 1..n
        /\ \A p, r \in 1..Len(idx) : p < r =>
              idx[p] # idx[r] /\ sims[idx[p]] >= sims[idx[r]]
        /\ \E S \in SUBSET (1..n) :
              /\ IsTopSet(S, sims, Min(top_k, n))
              /\ {idx[p] : p \in 1..Len(idx)} = {i \in S : sims[i] >= threshold}
        /\ \A p \in 1..Len(idx) :
              entries[p].fact =
                  SetItem(fs[idx[p]], "similarity_score", Float(sims[idx[p]]))
        /\ Len(idx) <= Min(top_k, n)

\* C4: on a non-empty store, a search with top_k >= 0 returns exactly the
\* facts that are among the min(top_k, size) most similar and reach the
\* threshold, most similar first; never more than min(top_k, size) of them.
C4_TopKThenThreshold ==
    (Returns("search") /\ ret.outcome = "ok" /\ facts # <<>>
        /\ call.args.top_k >= 0) =>
        TopKThenThreshold(facts, ret.results, call.args.query, call.args.top_k,
                          call.args.threshold)

\* C4 on the stores whose matrix agrees with their facts
C4_OnConsistentStores ==
    (Returns("search") /\ ret.outcome = "ok" /\ facts # <<>>
        /\ call.args.top_k >= 0 /\ RowsMatchTexts(facts, embeddings)) =>
        TopKThenThreshold(facts, ret.results, call.args.query, call.args.top_k,
                          call.args.threshold)

\* C5: among facts equally similar to the query, the one inserted earlier
\* comes earlier in the result and is the one kept at the top-k cut (stated
\* on stores whose matrix agrees with their facts).
C5_TiesByInsertionIndex ==
    (Returns("search") /\ ret.outcome = "ok" /\ RowsMatchTexts(facts, embeddings)) =>
        LET sims == TrueSims(facts, call.args.query)
            idx == IdxOf(ret.results)
            kept == {idx[p] : p \in 1..Len(idx)}
        IN  /\ \A p, r \in 1..Len(idx) :
                  (p < r /\ sims[idx[p]] = sims[idx[r]]) => idx[p] < idx[r]
            /\ \A j \in kept : \A i \in 1..(j - 1) : sims[i] = sims[j] => i \in kept

\* C6: on a store without facts, search returns the empty sequence and does
\* not call the embedding collaborator.
C6_EmptyStoreSearch ==
    (Returns("search") /\ call.pre.facts = <<>>) =>
        /\ ret.outcome = "ok"
        /\ ret.results = <<>>
        /\ ret.embedCalls = 0

C6_Witness ==
    /\ Returns("search") /\ call.pre.facts = <<>>
    /\ file = FileOf(Dump(<<>>))

StanceOf(e) == Get(e.fact, "stance", Str("neutral"))

\* the two buckets hold exactly the entries, split by stance, order kept
SplitsByStance(buckets, entries) ==
    LET contra == SelectSeq(entries, LAMBDA e : StanceOf(e) = Str("contradicting"))
        others == SelectSeq(entries, LAMBDA e : StanceOf(e) # Str("contradicting"))
        same(bucket, part) ==
            /\ Len(bucket) = Len(part)
            /\ \A p \in 1..Len(part) :
                  /\ bucket[p].idx = part[p].idx
                  /\ bucket[p].fact_data.text = part[p].fact["text"]
                  /\ bucket[p].fact_data.similarity = part[p].fact["similarity_score"]
    IN  /\ DOMAIN buckets = {"supporting", "contradicting"}
        /\ same(buckets.contradicting, contra)
        /\ same(buckets.supporting, others)

\* C7: categorize returns two buckets that partition what search returns for
\* the same query, top_k and threshold: contradicting facts in one, all
\* others in the other, each in search order (whenever that search returns
\* and the embedding collaborator did not fail the categorize call).
C7_CategorizePartitionsSearch ==
    (Returns("categorize") /\ ret.outcome # "EmbeddingUnavailable") =>
        LET found == {o \in search(call.pre.facts, call.pre.embeddings,
                                   call.args.query, call.args.top_k,
                                   call.args.threshold, TRUE) : o.outcome = "ok"}
        IN  found # {} =>
               /\ ret.outcome = "ok"
               /\ \E o \in found : SplitsByStance(ret.buckets, o.results)

\* C8: a fresh store loaded from a file that a completed save wrote holds the
\* facts of the store that saved, field for field and in order, and a matrix
\* whose row i is the embedding of the text of fact i.
C8_SaveLoadRoundTrip ==
    (Returns("construct") /\ ret.outcome = "ok" /\ synced) =>
        /\ facts = call.pre.facts
        /\ RowsMatchTexts(facts, embeddings)

C8_Witness ==
    /\ Returns("construct") /\ ret.outcome = "ok" /\ synced
    /\ Len(facts) = 2
    /\ \E i \in 1..2 : Get(facts[i], "source", Str("")) = None
    /\ \E i \in 1..2 : Get(facts[i], "source", None) # None

\* C9: at every point of an add the file is either as it was when add was
\* called or a complete document holding the facts after the add.
C9_FileReplacedAtomically ==
    (call.op = "add" /\ pc \in {"add_embed", "save_open", "save_write", "returned"}) =>
        \/ file = call.pre.file
        \/ /\ file.exists
           /\ Parse(file.text).ok
           /\ Parse(file.text).hasFacts
           /\ Parse(file.text).facts = facts

\* C10: search and categorize, returning or raising, leave the facts (no
\* stored fact gains a similarity score), the matrix and the file as they were.
C10_ReadsArePure ==
    (pc = "returned" /\ call.op \in {"search", "categorize"}) =>
        /\ facts = call.pre.facts
        /\ \A i \in 1..Len(facts) : "similarity_score" \notin DOMAIN facts[i]
        /\ embeddings = call.pre.embeddings
        /\ file = call.pre.file

C10_Witness ==
    /\ Returns("search") /\ ret.outcome = "ok"
    /\ Len(ret.results) = 2

\* the document is an object that has no facts key, or whose facts are a
\* list of objects each with its text
Conforms(text) ==
    LET data == Parse(text)
    IN  /\ data.ok
        /\ data.kind = "list"
        /\ \A i \in 1..Len(data.facts) : "text" \in DOMAIN data.facts[i]

Malformed(f) == f.exists /\ ~Conforms(f.text)

\* the errors by which load reports a file it cannot use
FormatErrors == {"JSONDecodeError", "KeyError"}

LoadEnded == pc \in {"returned", "none"} /\ call.op \in {"construct", "load"}

\* C11: a load of a file that exists but is malformed ends in a format error
\* (it never returns normally with an emptied store), while a load of a
\* missing file, or of an object without the facts key, returns normally with
\* an empty store.
C11_LoadErrors ==
    LoadEnded =>
        /\ Malformed(call.pre.file) => ret.outcome \in FormatErrors
        /\ (~call.pre.file.exists \/ call.pre.file.text = <<ObjOpen, ObjClose>>) =>
              (ret.outcome = "ok" /\ Len(facts) = 0)

\* C11 for every file but the one whose facts are an empty object
C11_ExceptEmptyObject ==
    (LoadEnded /\ call.pre.file.text # <<ObjOpen, FactsEmptyObject, ObjClose>>) =>
        /\ Malformed(call.pre.file) => ret.outcome \in FormatErrors
        /\ (~call.pre.file.exists \/ call.pre.file.text = <<ObjOpen, ObjClose>>) =>
              (ret.outcome = "ok" /\ Len(facts) = 0)

GenericLabel == Str("Knowledge Base")

\* C12: every entry categorize returns has a source label: the source of its
\* fact when the fact has one, the generic label when the source is missing
\* or null (as for facts added without a source); the label is never null.
C12_SourceLabel ==
    (Returns("categorize") /\ ret.outcome = "ok") =>
        \A b \in {ret.buckets.supporting, ret.buckets.contradicting} :
            \A p \in 1..Len(b) :
                LET source == Get(call.pre.facts[b[p].idx], "source", None)
                    label == b[p].fact_data.source_name
                IN  /\ label # None
                    /\ label = IF source = None THEN GenericLabel ELSE source

\* C12 for the facts whose source key is missing or holds a string
C12_ExceptNullSource ==
    (Returns("categorize") /\ ret.outcome = "ok") =>
        \A b \in {ret.buckets.supporting, ret.buckets.contradicting} :
            \A p \in 1..Len(b) :
                LET fact == call.pre.facts[b[p].idx]
                    label == b[p].fact_data.source_name
                IN  ("source" \notin DOMAIN fact \/ fact["source"] # None) =>
                        /\ label # None
                        /\ label = Get(fact, "source", GenericLabel)

\* C13: an add that fails, because the embedding collaborator raises or
\* because the file cannot be written, leaves the facts, the matrix and the
\* file as they were when it was called.
C13_AddAllOrNothing ==
    (Returns("add") /\ ret.outcome \in {"EmbeddingUnavailable", "OSError"}) =>
        /\ facts = call.pre.facts
        /\ embeddings = call.pre.embeddings
        /\ file = call.pre.file
====
